---- MODULE Spec2Model ----
(***************************************************************************)
(* Two-body contact constraints of the velocity solver                     *)
(* (src/dynamics/solver/contact_constraint/two_body_constraint.rs), in the *)
(* dim2 build: DIM = 2, one tangent axis.                                  *)
(*                                                                         *)
(* Real numbers are modelled in fixed point: the integer n stands for the  *)
(* real n / One.  Sums are exact, products and quotients are rounded       *)
(* toward zero (Mul, Div).  Arrays keep the 0-based indices of the source  *)
(* and are functions over 0..len-1.                                        *)
(***************************************************************************)
EXTENDS Integers, Sequences, FiniteSets, TLC

\* ------------------------------------------------------------------ bounds
\* Number of operations of one run (generate, update, solve, writeback,
\* remove_cfm_and_bias_from_rhs calls).
MaxOps == 5
\* Number of solver contacts of the largest manifold handed to generate.
MaxContacts == 3
\* Largest component of a linear velocity handed to
\* compute_tangent_contact_directions, in units of 1.0e-5.
MaxSpeed == 10

\* --------------------------------------------------------------- constants
\* The fixed-point representation of the real 1.0.
One == 4
DIM == 2
MAX_MANIFOLD_POINTS == 2
\* Sentinels of TwoBodyConstraint::invalid().  The code only stores and
\* compares them, so the width of usize plays no part: usize::MAX and
\* ContactManifoldIndex::MAX are the largest integer of the checker, beyond
\* every index of the model.
usize_MAX == 2147483647
ContactManifoldIndex_MAX == 2147483647
u8_MAX == 255

\* ------------------------------------------------------------------- reals
Abs(x) == IF x < 0 THEN -x ELSE x
Sgn(x) == IF x < 0 THEN -1 ELSE 1
\* The fixed-point value of the exact product p of two fixed-point values,
\* rounded toward zero.
Trunc(p) == IF p >= 0 THEN p \div One ELSE -((-p) \div One)
\* a * b
Mul(a, b) == Trunc(a * b)
\* a / b, b # 0
Div(a, b) == Sgn(a * b) * ((Abs(a) * One) \div Abs(b))
\* Real::max, Real::min, Real::clamp
max(a, b) == IF a >= b THEN a ELSE b
min(a, b) == IF a <= b THEN a ELSE b
clamp(x, lo, hi) == IF x < lo THEN lo ELSE IF x > hi THEN hi ELSE x
\* utils::inv: the inverse, with inv(0) = 0
inv(x) == IF x = 0 THEN 0 ELSE Div(One, x)
\* 0.5
Half == One \div 2

\* ----------------------------------------------------------------- vectors
\* Vector (dim2): <<x, y>>; AngVector (dim2): a scalar.
Zeros == <<0, 0>>
Add(a, b) == <<a[1] + b[1], a[2] + b[2]>>
Sub(a, b) == <<a[1] - b[1], a[2] - b[2]>>
Neg(a) == <<-a[1], -a[2]>>
Scale(a, s) == <<Mul(a[1], s), Mul(a[2], s)>>
dot(a, b) == Mul(a[1], b[1]) + Mul(a[2], b[2])
component_mul(a, b) == <<Mul(a[1], b[1]), Mul(a[2], b[2])>>
\* SimdCross for Vector2 x Vector2: the perp product
gcross(a, b) == Mul(a[1], b[2]) - Mul(a[2], b[1])
\* SimdCross for Real x Vector2
gcross_ang(w, v) == <<Mul(-v[2], w), Mul(v[1], w)>>
\* SimdBasis for Vector2: the single orthonormal complement
orthonormal_basis(v) == [j \in 0..(DIM - 2) |-> <<-v[2], v[1]>>]

\* Isometry (dim2): a rotation by rot quarter turns, then a translation.
RECURSIVE Rotate(_, _)
Rotate(q, v) == IF q % 4 = 0 THEN v ELSE Rotate((q % 4) - 1, <<-v[2], v[1]>>)
transform_point(iso, p) == Add(Rotate(iso.rot, p), iso.tr)
inverse_transform_point(iso, p) == Rotate(4 - (iso.rot % 4), Sub(p, iso.tr))

\* ------------------------------------------------------------------- types
Points == 0..(MAX_MANIFOLD_POINTS - 1)
Axes == 0..(DIM - 2)

\* TwoBodyConstraintElement::zero()
ElementZero ==
  [normal_part |-> [gcross1 |-> 0, gcross2 |-> 0, rhs |-> 0, rhs_wo_bias |-> 0,
                    impulse |-> 0, total_impulse |-> 0, r |-> 0],
   tangent_part |-> [gcross1 |-> [j \in Axes |-> 0], gcross2 |-> [j \in Axes |-> 0],
                     rhs |-> [j \in Axes |-> 0], rhs_wo_bias |-> [j \in Axes |-> 0],
                     impulse |-> [j \in Axes |-> 0], total_impulse |-> [j \in Axes |-> 0],
                     r |-> [j \in Axes |-> 0]]]

\* TwoBodyConstraint::invalid()
ConstraintInvalid ==
  [dir1 |-> Zeros, im1 |-> Zeros, im2 |-> Zeros, cfm_factor |-> 0, limit |-> 0,
   solver_vel1 |-> usize_MAX, solver_vel2 |-> usize_MAX,
   manifold_id |-> ContactManifoldIndex_MAX,
   manifold_contact_id |-> [k \in Points |-> u8_MAX],
   num_contacts |-> u8_MAX,
   elements |-> [k \in Points |-> ElementZero]]

\* ContactPointInfos::default()
InfosDefault ==
  [local_p1 |-> Zeros, local_p2 |-> Zeros, tangent_vel |-> Zeros, dist |-> 0,
   normal_rhs_wo_bias |-> 0]

\* TwoBodyConstraintBuilder::invalid()
BuilderInvalid == [infos |-> [k \in Points |-> InfosDefault]]

\* ------------------------------------------------------------------ inputs
\* RigidBodySet: three dynamic bodies, read and never written by this code.
Body(linvel, angvel, im, ii_sqrt, com, position, offset) ==
  [vels |-> [linvel |-> linvel, angvel |-> angvel],
   mprops |-> [effective_inv_mass |-> im, effective_world_inv_inertia_sqrt |-> ii_sqrt,
               world_com |-> com],
   pos |-> [position |-> position],
   ids |-> [active_set_offset |-> offset]]

bodies ==
  [h \in 0..2 |->
     CASE h = 0 -> Body(<<One, -One>>, 0, <<One, One>>, Half, <<0, One>>,
                        [rot |-> 0, tr |-> <<0, One>>], 0)
       [] h = 1 -> Body(<<0, One>>, 0, <<One, One>>, 0, <<0, -One>>,
                        [rot |-> 1, tr |-> <<0, -One>>], 1)
       [] OTHER -> Body(<<-One, 0>>, Half, <<Half, Half>>, 0, <<One, -One>>,
                        [rot |-> 0, tr |-> <<One, -One>>], 2)]

\* SolverContact
SolverContact(point, dist, friction, restitution, tangent_velocity, bouncy, id) ==
  [point |-> point, dist |-> dist, friction |-> friction, restitution |-> restitution,
   tangent_velocity |-> tangent_velocity, is_bouncy |-> bouncy, contact_id |-> id]

\* ContactManifold: data (normal, bodies, solver contacts) and points, the
\* stored contacts whose impulse fields writeback_impulses sets.  contact_id
\* is the index of a solver contact's stored contact in points.
Manifold(dominance, rb1, rb2, normal, solver_contacts, points) ==
  [data |-> [relative_dominance |-> dominance, rigid_body1 |-> rb1, rigid_body2 |-> rb2,
             normal |-> normal, solver_contacts |-> solver_contacts],
   points |-> points]

StoredContact(impulse, tangent_impulse) ==
  [data |-> [impulse |-> impulse, tangent_impulse |-> [j \in Axes |-> tangent_impulse]]]

\* The manifolds collision detection hands over.  Manifold 0 has MaxContacts
\* solver contacts, in the reverse order of its stored contacts, and one more
\* stored contact that is no solver contact; its stored impulses are those of
\* an earlier step.  Manifold 2 has a nonzero relative dominance.
ManifoldsInit ==
  [m \in 0..2 |->
     CASE m = 0 ->
            Manifold(0, 0, 1, <<0, -One>>,
              [i \in 1..MaxContacts |->
                 SolverContact(<<(i - 2) * Half, 0>>, -((i - 1) % 3) * Half, One,
                               IF i = 1 THEN One ELSE 0, <<IF i = 2 THEN Half ELSE 0, 0>>,
                               i = 1, MaxContacts - i)],
              [id \in 0..MaxContacts |-> StoredContact(id + 1, -(id + 1))])
       [] m = 1 ->
            Manifold(0, 1, 2, <<One, 0>>,
              <<SolverContact(<<Half, -One>>, 0, Half, 0, Zeros, FALSE, 0)>>,
              [id \in 0..0 |-> StoredContact(0, 0)])
       [] OTHER ->
            Manifold(1, 0, 2, <<0, One>>,
              <<SolverContact(<<0, 0>>, 0, One, 0, Zeros, FALSE, 0)>>,
              [id \in 0..0 |-> StoredContact(One, 0)])]

\* Length of the builder and constraint arrays of the solver.
NSlots == (MaxContacts + MAX_MANIFOLD_POINTS - 1) \div MAX_MANIFOLD_POINTS
Slots == 0..(NSlots - 1)

\* arr[off..]: a slice is a function over 0..len-1
Slice(arr, off) == [i \in 0..(NSlots - 1 - off) |-> arr[off + i]]
\* arr with arr[off..] replaced by slice
Splice(arr, off, slice) == [i \in Slots |-> IF i >= off THEN slice[i - off] ELSE arr[i]]

\* ---------------------------------------------------------------- generate
\* slice::chunks_exact in place of slice::chunks: the remainder is dropped.
num_chunks_exact(s, size) == Len(s) \div size

\* slice::chunks: the number of chunks, and chunk l
num_chunks(s, size) == (Len(s) + size - 1) \div size
chunk(s, size, l) == SubSeq(s, l * size + 1, min(Len(s), (l + 1) * size))

\* Lines 198-229: the normal part of element k, and normal_rhs_wo_bias.
generate_projected_mass(mprops1, mprops2, force_dir1, gcross1, gcross2) ==
  LET imsum == Add(mprops1.effective_inv_mass, mprops2.effective_inv_mass)
  IN  inv(dot(force_dir1, component_mul(imsum, force_dir1))
          + Mul(gcross1, gcross1) + Mul(gcross2, gcross2))

generate_normal_part(mprops1, mprops2, dp1, dp2, force_dir1) ==
  LET gcross1 == Mul(mprops1.effective_world_inv_inertia_sqrt, gcross(dp1, force_dir1))
      gcross2 == Mul(mprops2.effective_world_inv_inertia_sqrt, gcross(dp2, Neg(force_dir1)))
  IN  [gcross1 |-> gcross1, gcross2 |-> gcross2, rhs |-> 0, rhs_wo_bias |-> 0,
       impulse |-> 0, total_impulse |-> 0,
       r |-> generate_projected_mass(mprops1, mprops2, force_dir1, gcross1, gcross2)]

generate_normal_rhs_wo_bias(manifold_point, vel1, vel2, force_dir1) ==
  LET is_bouncy == IF manifold_point.is_bouncy THEN One ELSE 0
  IN  Mul(Mul(is_bouncy, manifold_point.restitution), dot(Sub(vel1, vel2), force_dir1))

\* generate_tangent_part without line 233: the tangent impulse of the slot's
\* earlier use is kept, like its total_impulse.
generate_tangent_part_keeps_impulse(old, manifold_point, mprops1, mprops2, dp1, dp2, tangents1) ==
  LET g1(j) == Mul(mprops1.effective_world_inv_inertia_sqrt, gcross(dp1, tangents1[j]))
      g2(j) == Mul(mprops2.effective_world_inv_inertia_sqrt, gcross(dp2, Neg(tangents1[j])))
      imsum == Add(mprops1.effective_inv_mass, mprops2.effective_inv_mass)
      r(j) == dot(tangents1[j], component_mul(imsum, tangents1[j]))
              + Mul(g1(j), g1(j)) + Mul(g2(j), g2(j))
      rhs_wo_bias(j) == dot(manifold_point.tangent_velocity, tangents1[j])
  IN  [gcross1 |-> [j \in Axes |-> g1(j)],
       gcross2 |-> [j \in Axes |-> g2(j)],
       rhs |-> [j \in Axes |-> rhs_wo_bias(j)],
       rhs_wo_bias |-> [j \in Axes |-> rhs_wo_bias(j)],
       impulse |-> old.impulse,
       total_impulse |-> old.total_impulse,
       r |-> [j \in Axes |-> inv(r(j))]]

\* Lines 231-267: the tangent part of element k; total_impulse is not assigned.
generate_tangent_part(old, manifold_point, mprops1, mprops2, dp1, dp2, tangents1) ==
  LET g1(j) == Mul(mprops1.effective_world_inv_inertia_sqrt, gcross(dp1, tangents1[j]))
      g2(j) == Mul(mprops2.effective_world_inv_inertia_sqrt, gcross(dp2, Neg(tangents1[j])))
      imsum == Add(mprops1.effective_inv_mass, mprops2.effective_inv_mass)
      r(j) == dot(tangents1[j], component_mul(imsum, tangents1[j]))
              + Mul(g1(j), g1(j)) + Mul(g2(j), g2(j))
      rhs_wo_bias(j) == dot(manifold_point.tangent_velocity, tangents1[j])
  IN  [gcross1 |-> [j \in Axes |-> g1(j)],
       gcross2 |-> [j \in Axes |-> g2(j)],
       rhs |-> [j \in Axes |-> rhs_wo_bias(j)],
       rhs_wo_bias |-> [j \in Axes |-> rhs_wo_bias(j)],
       impulse |-> [j \in Axes |-> 0],
       total_impulse |-> old.total_impulse,
       r |-> [j \in Axes |-> inv(r(j))]]

\* Lines 269-284: the builder's infos of point k.
generate_infos(manifold_point, rb1, rb2, normal_rhs_wo_bias) ==
  [local_p1 |-> inverse_transform_point(rb1.pos.position, manifold_point.point),
   local_p2 |-> inverse_transform_point(rb2.pos.position, manifold_point.point),
   tangent_vel |-> manifold_point.tangent_velocity,
   dist |-> manifold_point.dist,
   normal_rhs_wo_bias |-> normal_rhs_wo_bias]

\* Lines 185-286, one iteration of the loop over k.
generate_element(old, manifold_point, rb1, rb2, force_dir1, tangents1) ==
  LET dp1 == Sub(manifold_point.point, rb1.mprops.world_com)
      dp2 == Sub(manifold_point.point, rb2.mprops.world_com)
  IN  [normal_part |-> generate_normal_part(rb1.mprops, rb2.mprops, dp1, dp2, force_dir1),
       tangent_part |-> generate_tangent_part(old.tangent_part, manifold_point,
                                              rb1.mprops, rb2.mprops, dp1, dp2, tangents1)]

generate_point_infos(manifold_point, rb1, rb2, force_dir1) ==
  LET dp1 == Sub(manifold_point.point, rb1.mprops.world_com)
      dp2 == Sub(manifold_point.point, rb2.mprops.world_com)
      vel1 == Add(rb1.vels.linvel, gcross_ang(rb1.vels.angvel, dp1))
      vel2 == Add(rb2.vels.linvel, gcross_ang(rb2.vels.angvel, dp2))
  IN  generate_infos(manifold_point, rb1, rb2,
                     generate_normal_rhs_wo_bias(manifold_point, vel1, vel2, force_dir1))

\* Lines 171-287, one iteration of the loop over the chunks: constraint l.
\* cfm_factor is not assigned; slots k >= manifold_points.len() keep their
\* manifold_contact_id and element.
generate_constraint(old, manifold_id, manifold_points, rb1, rb2, force_dir1, tangents1) ==
  LET n == Len(manifold_points)
  IN  [old EXCEPT
         !.dir1 = force_dir1,
         !.im1 = rb1.mprops.effective_inv_mass,
         !.im2 = rb2.mprops.effective_inv_mass,
         !.solver_vel1 = rb1.ids.active_set_offset,
         !.solver_vel2 = rb2.ids.active_set_offset,
         !.manifold_id = manifold_id,
         !.num_contacts = n,
         !.limit = manifold_points[n].friction,
         !.manifold_contact_id =
            [k \in Points |-> IF k < n THEN manifold_points[k + 1].contact_id ELSE @[k]],
         !.elements =
            [k \in Points |-> IF k < n
                                THEN generate_element(@[k], manifold_points[k + 1],
                                                      rb1, rb2, force_dir1, tangents1)
                                ELSE @[k]]]

generate_builder(old, manifold_points, rb1, rb2, force_dir1) ==
  [old EXCEPT
     !.infos = [k \in Points |-> IF k < Len(manifold_points)
                                   THEN generate_point_infos(manifold_points[k + 1],
                                                             rb1, rb2, force_dir1)
                                   ELSE @[k]]]

\* generate without its assertion.
generate_assert_absent(manifold) == TRUE

\* Line 145: assert_eq!(manifold.data.relative_dominance, 0)
generate_assert(manifold) == manifold.data.relative_dominance = 0

\* TwoBodyConstraintBuilder::generate.  out_builders and out_constraints are
\* the slices the caller hands over, each long enough for the manifold's
\* chunks.  The result holds the slices as left by the call and whether the
\* call panicked.
generate(manifold_id, manifold, rbs, out_builders, out_constraints) ==
  LET rb1 == rbs[manifold.data.rigid_body1]
      rb2 == rbs[manifold.data.rigid_body2]
      force_dir1 == Neg(manifold.data.normal)
      tangents1 == orthonormal_basis(force_dir1)
      contacts == manifold.data.solver_contacts
      written == 0..(num_chunks(contacts, MAX_MANIFOLD_POINTS) - 1)
  IN  IF ~generate_assert(manifold)
        THEN [panicked |-> TRUE, out_builders |-> out_builders,
              out_constraints |-> out_constraints]
        ELSE [panicked |-> FALSE,
              out_builders |->
                [l \in DOMAIN out_builders |->
                   IF l \in written
                     THEN generate_builder(out_builders[l],
                                           chunk(contacts, MAX_MANIFOLD_POINTS, l),
                                           rb1, rb2, force_dir1)
                     ELSE out_builders[l]],
              out_constraints |->
                [l \in DOMAIN out_constraints |->
                   IF l \in written
                     THEN generate_constraint(out_constraints[l], manifold_id,
                                              chunk(contacts, MAX_MANIFOLD_POINTS, l),
                                              rb1, rb2, force_dir1, tangents1)
                     ELSE out_constraints[l]]]

\* ------------------------------------------------------------------ update
\* IntegrationParameters, as update_with_positions reads it: the field dt,
\* allowed_linear_error and max_penetration_correction, and the values of
\* inv_dt(), erp_inv_dt() and cfm_factor().
Params(dt, inv_dt, erp_inv_dt, cfm_factor, allowed_linear_error, max_penetration_correction) ==
  [dt |-> dt, inv_dt |-> inv_dt, erp_inv_dt |-> erp_inv_dt, cfm_factor |-> cfm_factor,
   allowed_linear_error |-> allowed_linear_error,
   max_penetration_correction |-> max_penetration_correction]

\* Lines 340-342: the current separation of a contact point.
update_p1(info, rb1_pos, solved_dt) ==
  Add(transform_point(rb1_pos, info.local_p1), Scale(info.tangent_vel, solved_dt))
update_p2(info, rb2_pos) == transform_point(rb2_pos, info.local_p2)
update_dist(info, dir1, p1, p2) == info.dist + dot(Sub(p1, p2), dir1)

\* Line 346
update_rhs_wo_bias(info, dist, inv_dt) ==
  info.normal_rhs_wo_bias + Mul(max(dist, 0), inv_dt)

\* Lines 347-349 with the clamp's upper bound at max_penetration_correction:
\* a separated point is pulled back.
update_rhs_bias_two_sided(params, dist) ==
  Mul(params.erp_inv_dt,
      clamp(dist + params.allowed_linear_error, -params.max_penetration_correction,
            params.max_penetration_correction))

\* Lines 347-349 without the clamp's lower bound: the correction grows with
\* the depth.
update_rhs_bias_unbounded(params, dist) ==
  Mul(params.erp_inv_dt, min(dist + params.allowed_linear_error, 0))

\* Lines 347-349
update_rhs_bias(params, dist) ==
  Mul(params.erp_inv_dt,
      clamp(dist + params.allowed_linear_error, -params.max_penetration_correction, 0))

\* Line 352, the right operand of ||
update_is_fast(new_rhs, params, ccd_thickness) ==
  Mul(-new_rhs, params.dt) > Mul(ccd_thickness, Half)

\* Lines 344-358
update_normal_part(part, info, params, dist) ==
  LET rhs_wo_bias == update_rhs_wo_bias(info, dist, params.inv_dt)
      new_rhs == rhs_wo_bias + update_rhs_bias(params, dist)
  IN  [part EXCEPT !.rhs_wo_bias = rhs_wo_bias,
                   !.rhs = new_rhs,
                   !.total_impulse = part.total_impulse + part.impulse,
                   !.impulse = 0]

\* Lines 360-369
update_tangent_part(part, params, p1, p2, tangents1) ==
  [part EXCEPT !.total_impulse = [j \in Axes |-> part.total_impulse[j] + part.impulse[j]],
               !.impulse = [j \in Axes |-> 0],
               !.rhs = [j \in Axes |->
                          part.rhs_wo_bias[j] + Mul(dot(Sub(p1, p2), tangents1[j]), params.inv_dt)]]

\* Lines 338-370, one iteration of the loop
update_element(element, info, params, solved_dt, rb1_pos, rb2_pos, dir1) ==
  LET p1 == update_p1(info, rb1_pos, solved_dt)
      p2 == update_p2(info, rb2_pos)
      dist == update_dist(info, dir1, p1, p2)
  IN  [normal_part |-> update_normal_part(element.normal_part, info, params, dist),
       tangent_part |-> update_tangent_part(element.tangent_part, params, p1, p2,
                                            orthonormal_basis(dir1))]

\* Line 372
update_cfm_factor(is_fast_contact, cfm_factor) == IF is_fast_contact THEN One ELSE cfm_factor

\* update_with_positions with is_fast_contact starting from the constraint's
\* cfm_factor in place of false (line 328): a neutral cfm_factor stays.
update_finish_sticky(constraint, elements, params, ccd_thickness) ==
  LET is_fast_contact ==
        \/ constraint.cfm_factor = One
        \/ \E k \in Points : /\ k < constraint.num_contacts
                             /\ update_is_fast(elements[k].normal_part.rhs, params, ccd_thickness)
  IN  [constraint EXCEPT !.elements = elements,
                         !.cfm_factor = update_cfm_factor(is_fast_contact, params.cfm_factor)]

\* Lines 328, 352 and 372: is_fast_contact is the disjunction, over the
\* points of the loop, of update_is_fast of the new rhs.
update_finish(constraint, elements, params, ccd_thickness) ==
  LET is_fast_contact ==
        \E k \in Points : /\ k < constraint.num_contacts
                          /\ update_is_fast(elements[k].normal_part.rhs, params, ccd_thickness)
  IN  [constraint EXCEPT !.elements = elements,
                         !.cfm_factor = update_cfm_factor(is_fast_contact, params.cfm_factor)]

\* TwoBodyConstraintBuilder::update_with_positions
update_with_positions(self, params, solved_dt, rb1_pos, rb2_pos, ccd_thickness, constraint) ==
  update_finish(constraint,
                [k \in Points |->
                   IF k < constraint.num_contacts
                     THEN update_element(constraint.elements[k], self.infos[k], params,
                                         solved_dt, rb1_pos, rb2_pos, constraint.dir1)
                     ELSE constraint.elements[k]],
                params, ccd_thickness)

\* TwoBodyConstraintBuilder::update
update(self, params, solved_dt, solver_bodies, constraint) ==
  LET rb1 == solver_bodies[constraint.solver_vel1]
      rb2 == solver_bodies[constraint.solver_vel2]
  IN  update_with_positions(self, params, solved_dt, rb1.position, rb2.position,
                            rb1.ccd_thickness + rb2.ccd_thickness, constraint)

\* ------------------------------------------------------------------- solve
\* TwoBodyConstraintElement::solve_group and the parts it calls are not in
\* this file; they are the sequential-impulse projection of the element:
\* the normal impulse is kept >= 0 and scaled by cfm_factor, the tangent
\* impulse is clamped to [-limit*normal impulse, limit*normal impulse].
\* st = [elements, v1, v2]: the elements and the two local velocities.
apply_dlambda(st, dir, im1, im2, g1, g2, dlambda) ==
  [st EXCEPT
     !.v1 = [linear |-> Add(st.v1.linear, Scale(component_mul(dir, im1), dlambda)),
             angular |-> st.v1.angular + Mul(g1, dlambda)],
     !.v2 = [linear |-> Add(st.v2.linear, Scale(component_mul(dir, im2), -dlambda)),
             angular |-> st.v2.angular + Mul(g2, dlambda)]]

dvel_of(st, dir, g1, g2, rhs) ==
  dot(dir, st.v1.linear) + Mul(g1, st.v1.angular)
  - dot(dir, st.v2.linear) + Mul(g2, st.v2.angular) + rhs

set_normal_impulse(st, k, part, new_impulse, dir1, im1, im2) ==
  apply_dlambda([st EXCEPT !.elements[k].normal_part.impulse = new_impulse],
                dir1, im1, im2, part.gcross1, part.gcross2, new_impulse - part.impulse)

normal_part_solve(st, k, cfm_factor, dir1, im1, im2) ==
  LET part == st.elements[k].normal_part
      dvel == dvel_of(st, dir1, part.gcross1, part.gcross2, part.rhs)
  IN  set_normal_impulse(st, k, part,
                         Mul(cfm_factor, max(part.impulse - Mul(part.r, dvel), 0)),
                         dir1, im1, im2)

set_tangent_impulse(st, k, part, new_impulse, tangents1, im1, im2) ==
  apply_dlambda([st EXCEPT !.elements[k].tangent_part.impulse[0] = new_impulse],
                tangents1[0], im1, im2, part.gcross1[0], part.gcross2[0],
                new_impulse - part.impulse[0])

tangent_part_apply_limit(st, k, tangents1, im1, im2, limit) ==
  LET part == st.elements[k].tangent_part
  IN  set_tangent_impulse(st, k, part, clamp(part.impulse[0], -limit, limit),
                          tangents1, im1, im2)

tangent_part_solve(st, k, tangents1, im1, im2, limit) ==
  LET part == st.elements[k].tangent_part
      dvel == dvel_of(st, tangents1[0], part.gcross1[0], part.gcross2[0], part.rhs[0])
  IN  set_tangent_impulse(st, k, part,
                          clamp(part.impulse[0] - Mul(part.r[0], dvel), -limit, limit),
                          tangents1, im1, im2)

limit_after_normal(st, k, dir1, im1, im2, limit) ==
  tangent_part_apply_limit(st, k, orthonormal_basis(dir1), im1, im2,
                           Mul(limit, st.elements[k].normal_part.impulse))

RECURSIVE solve_group_normal(_, _, _, _, _, _, _, _)
solve_group_normal(st, k, n, cfm_factor, dir1, im1, im2, limit) ==
  IF k >= n THEN st
  ELSE solve_group_normal(
         limit_after_normal(normal_part_solve(st, k, cfm_factor, dir1, im1, im2),
                            k, dir1, im1, im2, limit),
         k + 1, n, cfm_factor, dir1, im1, im2, limit)

RECURSIVE solve_group_friction(_, _, _, _, _, _, _)
solve_group_friction(st, k, n, dir1, im1, im2, limit) ==
  IF k >= n THEN st
  ELSE solve_group_friction(
         tangent_part_solve(st, k, orthonormal_basis(dir1), im1, im2,
                            Mul(limit, st.elements[k].normal_part.impulse)),
         k + 1, n, dir1, im1, im2, limit)

solve_group(cfm_factor, elements, n, dir1, im1, im2, limit, solver_vel1, solver_vel2, solve_normal, solve_friction) ==
  LET st0 == [elements |-> elements, v1 |-> solver_vel1, v2 |-> solver_vel2]
      st1 == IF solve_normal
               THEN solve_group_normal(st0, 0, n, cfm_factor, dir1, im1, im2, limit)
               ELSE st0
  IN  IF solve_friction THEN solve_group_friction(st1, 0, n, dir1, im1, im2, limit) ELSE st1

\* Lines 401-402 with the two velocities exchanged.
solve_store_exchanged(solver_vels, i1, i2, solver_vel1, solver_vel2) ==
  [[solver_vels EXCEPT ![i1] = solver_vel2] EXCEPT ![i2] = solver_vel1]

\* Lines 401-402: the two stores, in this order.
solve_store(solver_vels, i1, i2, solver_vel1, solver_vel2) ==
  [[solver_vels EXCEPT ![i1] = solver_vel1] EXCEPT ![i2] = solver_vel2]

\* TwoBodyConstraint::solve.  The result holds the constraint and the
\* velocity array as left by the call, the two velocities the call loaded
\* (lines 383-384) and the two it computed (lines 386-399).
solve_finish(self, solver_vels, solver_vel1, solver_vel2, st) ==
  [self |-> [self EXCEPT !.elements = st.elements],
   solver_vels |-> solve_store(solver_vels, self.solver_vel1, self.solver_vel2, st.v1, st.v2),
   loaded |-> <<solver_vel1, solver_vel2>>,
   computed |-> <<st.v1, st.v2>>]

solve(self, solver_vels, solve_normal, solve_friction) ==
  LET solver_vel1 == solver_vels[self.solver_vel1]
      solver_vel2 == solver_vels[self.solver_vel2]
  IN  solve_finish(self, solver_vels, solver_vel1, solver_vel2,
                   solve_group(self.cfm_factor, self.elements, self.num_contacts, self.dir1,
                               self.im1, self.im2, self.limit, solver_vel1, solver_vel2,
                               solve_normal, solve_friction))

\* --------------------------------------------------------------- writeback
\* Lines 408-421 with the stored contact taken at k in place of
\* manifold_contact_id[k].
RECURSIVE writeback_points_at_k(_, _, _)
writeback_points_at_k(self, points, k) ==
  IF k >= self.num_contacts THEN points
  ELSE writeback_points_at_k(
         self,
         [points EXCEPT
            ![k].data.impulse = self.elements[k].normal_part.impulse,
            ![k].data.tangent_impulse = self.elements[k].tangent_part.impulse],
         k + 1)

\* Lines 408-421, the iterations k..num_contacts-1 of the loop
RECURSIVE writeback_points(_, _, _)
writeback_points(self, points, k) ==
  IF k >= self.num_contacts THEN points
  ELSE writeback_points(
         self,
         [points EXCEPT
            ![self.manifold_contact_id[k]].data.impulse = self.elements[k].normal_part.impulse,
            ![self.manifold_contact_id[k]].data.tangent_impulse =
               self.elements[k].tangent_part.impulse],
         k + 1)

\* TwoBodyConstraint::writeback_impulses
writeback_impulses(self, manifolds_all) ==
  [manifolds_all EXCEPT
     ![self.manifold_id].points = writeback_points(self, @, 0)]

\* Lines 426-432 without line 430: the tangent part keeps its rhs.
remove_bias_element_normal_only(elt) ==
  [elt EXCEPT !.normal_part.rhs = elt.normal_part.rhs_wo_bias]

\* Lines 426-432, one iteration of the loop
remove_bias_element(elt) ==
  [elt EXCEPT !.normal_part.rhs = elt.normal_part.rhs_wo_bias,
              !.tangent_part.rhs = elt.tangent_part.rhs_wo_bias]

\* TwoBodyConstraint::remove_cfm_and_bias_from_rhs
remove_cfm_and_bias_from_rhs(self) ==
  [self EXCEPT !.cfm_factor = One,
               !.elements = [k \in Points |-> remove_bias_element(self.elements[k])]]

\* ------------------------------------------------------------ substep inputs
\* The integration parameters of a substep: a soft setting (erp_inv_dt 0.5,
\* cfm_factor 0.5, no slop) and a stiff one (erp_inv_dt 2.0, cfm_factor 1.0).
ParamsSoft == Params(One, One, Half, Half, 0, One)
ParamsStiff == Params(Half, 2 * One, 2 * One, One, Half, Half)

\* The solver bodies of a substep (position and ccd_thickness per solver
\* slot).  Body 0 has moved since generate: down by 0.5, which deepens the
\* contacts of manifold 0, or up by 2.0, which separates them.
SolverBody(position, ccd_thickness) == [position |-> position, ccd_thickness |-> ccd_thickness]
SolverBodiesDeeper ==
  [i \in 0..2 |-> SolverBody(IF i = 0 THEN [rot |-> 0, tr |-> <<0, Half>>]
                                      ELSE bodies[i].pos.position, Half \div 2)]
SolverBodiesApart ==
  [i \in 0..2 |-> SolverBody(IF i = 0 THEN [rot |-> 0, tr |-> <<0, 3 * One>>]
                                      ELSE bodies[i].pos.position, One)]

\* The arguments of update: params, solved_dt (0 at the first substep, the dt
\* solved so far later) and the solver bodies.
UpdateArgs ==
  { <<ParamsSoft, 0, SolverBodiesDeeper>>,
    <<ParamsSoft, ParamsSoft.dt, SolverBodiesApart>>,
    <<ParamsStiff, 0, SolverBodiesApart>>,
    <<ParamsStiff, ParamsStiff.dt, SolverBodiesDeeper>> }

\* The solver velocities at the start of the step.
SolverVelsInit ==
  [i \in 0..2 |-> [linear |-> bodies[i].vels.linvel, angular |-> bodies[i].vels.angvel]]

\* ------------------------------------------------ tangent directions (dim3)
\* compute_tangent_contact_directions exists in the dim3 build only.  Its
\* vectors are exact here: a velocity is an integer vector in units of
\* 1.0e-5, the force direction is one of the six unit axis vectors, a norm is
\* held by its square, and a unit vector w / |w| is held as [nan, dir], dir
\* the shortest integer vector along w.  Normalising the zero vector divides
\* 0 by 0: nan.
\* Line 463: 1.0e-4, in units of 1.0e-5.
THRESHOLD == 10

Zeros3 == <<0, 0, 0>>
Sub3(a, b) == <<a[1] - b[1], a[2] - b[2], a[3] - b[3]>>
Scale3(a, x) == <<a[1] * x, a[2] * x, a[3] * x>>
gdot3(a, b) == a[1] * b[1] + a[2] * b[2] + a[3] * b[3]
gcross3(a, b) ==
  <<a[2] * b[3] - a[3] * b[2], a[3] * b[1] - a[1] * b[3], a[1] * b[2] - a[2] * b[1]>>

RECURSIVE Gcd(_, _)
Gcd(a, b) == IF b = 0 THEN a ELSE Gcd(b, a % b)
\* w # 0 divided by the greatest common divisor of its components
Shortest(w) ==
  LET g == Gcd(Gcd(Abs(w[1]), Abs(w[2])), Abs(w[3]))
  IN  <<Sgn(w[1]) * (Abs(w[1]) \div g), Sgn(w[2]) * (Abs(w[2]) \div g),
        Sgn(w[3]) * (Abs(w[3]) \div g)>>

UnitVector(dir) == [nan |-> FALSE, dir |-> dir]
NanVector == [nan |-> TRUE, dir |-> Zeros3]

\* Line 460: normalize_mut leaves the vector normalised and returns its
\* norm, here its square.
normalize_mut(v) ==
  [vector |-> IF v = Zeros3 THEN NanVector ELSE UnitVector(Shortest(v)),
   norm_sq |-> gdot3(v, v)]

\* simd_le in place of simd_lt at line 464.
use_fallback_le(norm_sq) == norm_sq <= THRESHOLD * THRESHOLD

\* Line 464: tangent_linvel_norm.simd_lt(THRESHOLD), on the squares
use_fallback_lt(norm_sq) == norm_sq < THRESHOLD * THRESHOLD

\* SimdBasis::orthonormal_vector for a unit axis vector: some unit vector
\* orthogonal to it.
orthonormal_vector(v) ==
  UnitVector(IF v[2] # 0 THEN <<0, 0, -v[2]>>
             ELSE IF v[3] < 0 THEN <<0, -1, 0>> ELSE <<0, 1, 0>>)

\* Line 467: SimdValue::select
select(self, cond, other) == IF cond THEN self ELSE other

\* Line 468: force_dir1.gcross(tangent1), tangent1 a unit vector orthogonal
\* to the axis vector force_dir1
tangents_bitangent(force_dir1, tangent1) ==
  [nan |-> tangent1.nan, dir |-> gcross3(force_dir1, tangent1.dir)]

\* Lines 452-455
tangents_projection(force_dir1, linvel1, linvel2) ==
  Sub3(Sub3(linvel1, linvel2), Scale3(force_dir1, gdot3(force_dir1, Sub3(linvel1, linvel2))))

\* Lines 457-470
tangents_finish(force_dir1, normalized) ==
  [j \in 0..1 |->
     IF j = 0
       THEN select(orthonormal_vector(force_dir1), use_fallback_lt(normalized.norm_sq),
                   normalized.vector)
       ELSE tangents_bitangent(
              force_dir1,
              select(orthonormal_vector(force_dir1), use_fallback_lt(normalized.norm_sq),
                     normalized.vector))]

\* compute_tangent_contact_directions
compute_tangent_contact_directions(force_dir1, linvel1, linvel2) ==
  tangents_finish(force_dir1, normalize_mut(tangents_projection(force_dir1, linvel1, linvel2)))

\* The arguments: the six axis directions, every first velocity within
\* MaxSpeed, and a second body at rest or moving.
ForceDirs ==
  {<<1, 0, 0>>, <<-1, 0, 0>>, <<0, 1, 0>>, <<0, -1, 0>>, <<0, 0, 1>>, <<0, 0, -1>>}
LinVels1 ==
  {<<x, y, z>> : x \in -MaxSpeed..MaxSpeed, y \in -MaxSpeed..MaxSpeed, z \in -MaxSpeed..MaxSpeed}
LinVels2 == {Zeros3, <<1, -1, 0>>}

\* ------------------------------------------------------------------- state
VARIABLES
  manifolds,     \* manifolds_all
  builders,      \* the solver's array of TwoBodyConstraintBuilder
  constraints,   \* the solver's array of TwoBodyConstraint
  solver_vels,   \* the solver's array of SolverVel
  panicked,      \* the assertion of generate failed: the program is gone
  ops,           \* number of calls so far
  last,          \* the last call: its name, its arguments, and what it read
  acc,           \* per slot and point: the sum of the impulses held at each update since generate
  unsolved,      \* the slots generate has written and solve has not touched since
  stored,        \* per velocity slot: the constraint whose solve stored last, and what it computed
  tangent_args,  \* the arguments of the last compute_tangent_contact_directions call
  tangents       \* what that call returned

vars == <<manifolds, builders, constraints, solver_vels, panicked, ops, last, acc, unsolved, stored,
          tangent_args, tangents>>

\* op: the function called; c: the constraint slot (for generate, off: the
\* start of the slices); mid: the manifold; args: the other arguments;
\* aux: for solve the two velocities it loaded, the two it computed and the
\* constraints that had stored last to its two slots; for update and
\* remove_cfm_and_bias_from_rhs the cfm_factor it found.
Call(op, c, mid, args, aux) == [op |-> op, c |-> c, mid |-> mid, args |-> args, aux |-> aux]

AccZero == [k \in Points |-> [normal |-> 0, tangent |-> [j \in Axes |-> 0]]]
\* No constraint has stored to a velocity slot yet: beyond every slot.
NoConstraint == NSlots

\* A constraint generate has written.
Generated(c) == constraints[c].num_contacts # u8_MAX

InitSolver ==
  /\ manifolds = ManifoldsInit
  /\ builders = [c \in Slots |-> BuilderInvalid]
  /\ constraints = [c \in Slots |-> ConstraintInvalid]
  /\ solver_vels = SolverVelsInit
  /\ panicked = FALSE
  /\ ops = 0
  /\ last = Call("none", 0, 0, <<>>, <<>>)
  /\ acc = [c \in Slots |-> AccZero]
  /\ unsolved = {}
  /\ stored = [i \in DOMAIN SolverVelsInit |-> [by |-> NoConstraint, vel |-> SolverVelsInit[i]]]

\* No compute_tangent_contact_directions call has been made: the dim2 build
\* has none.
Init ==
  /\ InitSolver
  /\ tangent_args = [called |-> FALSE, force_dir1 |-> <<1, 0, 0>>,
                     linvel1 |-> Zeros3, linvel2 |-> Zeros3]
  /\ tangents = [j \in 0..1 |-> UnitVector(Zeros3)]

\* generate(mid, &manifolds[mid], &bodies, &mut builders[off..], &mut constraints[off..])
Generate(mid, off) ==
  LET chunks == num_chunks(manifolds[mid].data.solver_contacts, MAX_MANIFOLD_POINTS)
  IN
  /\ ~panicked /\ ops < MaxOps
  /\ off + chunks <= NSlots
  /\ \E res \in {generate(mid, manifolds[mid], bodies, Slice(builders, off),
                           Slice(constraints, off))} :
      LET written == IF res.panicked THEN {} ELSE {c \in Slots : c >= off /\ c < off + chunks}
      IN
      /\ builders' = Splice(builders, off, res.out_builders)
      /\ constraints' = Splice(constraints, off, res.out_constraints)
      /\ panicked' = res.panicked
      /\ acc' = [c \in Slots |-> IF c \in written THEN AccZero ELSE acc[c]]
      /\ unsolved' = unsolved \cup written
      /\ ops' = ops + 1
      /\ last' = Call("generate", off, mid, <<>>, <<>>)
      /\ UNCHANGED <<manifolds, solver_vels, stored, tangent_args, tangents>>

\* builders[c].update(params, solved_dt, solver_bodies, multibodies, &mut constraints[c])
Update(c, params, solved_dt, solver_bodies) ==
  /\ ~panicked /\ ops < MaxOps
  /\ Generated(c)
  /\ constraints' = [constraints EXCEPT
                       ![c] = update(builders[c], params, solved_dt, solver_bodies, @)]
  /\ acc' = [acc EXCEPT ![c] =
               [k \in Points |->
                  IF k < constraints[c].num_contacts
                    THEN [normal |-> @[k].normal + constraints[c].elements[k].normal_part.impulse,
                          tangent |-> [j \in Axes |->
                             @[k].tangent[j] + constraints[c].elements[k].tangent_part.impulse[j]]]
                    ELSE @[k]]]
  /\ ops' = ops + 1
  /\ last' = Call("update", c, constraints[c].manifold_id,
                  <<params, solved_dt, solver_bodies>>, <<constraints[c].cfm_factor>>)
  /\ UNCHANGED <<manifolds, builders, solver_vels, panicked, unsolved, stored, tangent_args, tangents>>

\* constraints[c].solve(&mut solver_vels, solve_normal, solve_friction)
Solve(c, solve_normal, solve_friction) ==
  /\ ~panicked /\ ops < MaxOps
  /\ Generated(c)
  /\ \E res \in {solve(constraints[c], solver_vels, solve_normal, solve_friction)} :
      /\ constraints' = [constraints EXCEPT ![c] = res.self]
      /\ solver_vels' = res.solver_vels
      /\ stored' = [stored EXCEPT
                      ![constraints[c].solver_vel1] = [by |-> c, vel |-> res.computed[1]],
                      ![constraints[c].solver_vel2] = [by |-> c, vel |-> res.computed[2]]]
      /\ unsolved' = unsolved \ {c}
      /\ ops' = ops + 1
      /\ last' = Call("solve", c, constraints[c].manifold_id,
                      <<solve_normal, solve_friction>>,
                      <<res.loaded, res.computed,
                        <<stored[constraints[c].solver_vel1].by,
                          stored[constraints[c].solver_vel2].by>> >>)
      /\ UNCHANGED <<manifolds, builders, panicked, acc, tangent_args, tangents>>

\* constraints[c].writeback_impulses(&mut manifolds)
Writeback(c) ==
  /\ ~panicked /\ ops < MaxOps
  /\ Generated(c)
  /\ manifolds' = writeback_impulses(constraints[c], manifolds)
  /\ ops' = ops + 1
  /\ last' = Call("writeback_impulses", c, constraints[c].manifold_id, <<>>, <<>>)
  /\ UNCHANGED <<builders, constraints, solver_vels, panicked, acc, unsolved, stored,
                 tangent_args, tangents>>

\* constraints[c].remove_cfm_and_bias_from_rhs()
RemoveBias(c) ==
  /\ ~panicked /\ ops < MaxOps
  /\ Generated(c)
  /\ constraints' = [constraints EXCEPT ![c] = remove_cfm_and_bias_from_rhs(@)]
  /\ ops' = ops + 1
  /\ last' = Call("remove_cfm_and_bias_from_rhs", c, constraints[c].manifold_id,
                  <<>>, <<constraints[c].cfm_factor>>)
  /\ UNCHANGED <<manifolds, builders, solver_vels, panicked, acc, unsolved, stored,
                 tangent_args, tangents>>

\* solve_normal and solve_friction as the solver passes them: the
\* restitution pass (solve_restitution), the friction pass (solve_friction),
\* and both in one call.
SolveFlags == {<<TRUE, FALSE>>, <<FALSE, TRUE>>, <<TRUE, TRUE>>}

Next ==
  \/ \E mid \in DOMAIN manifolds, off \in Slots : Generate(mid, off)
  \/ \E c \in Slots, args \in UpdateArgs : Update(c, args[1], args[2], args[3])
  \/ \E c \in Slots, flags \in SolveFlags : Solve(c, flags[1], flags[2])
  \/ \E c \in Slots : Writeback(c)
  \/ \E c \in Slots : RemoveBias(c)

Spec == Init /\ [][Next]_vars

\* The arguments of one compute_tangent_contact_directions call, not made yet.
TangentInit ==
  /\ InitSolver
  /\ tangent_args \in [called : {FALSE}, force_dir1 : ForceDirs,
                        linvel1 : LinVels1, linvel2 : LinVels2]
  /\ tangents = [j \in 0..1 |-> UnitVector(Zeros3)]

\* compute_tangent_contact_directions(&force_dir1, &linvel1, &linvel2): a
\* pure function of its arguments.
ComputeTangents ==
  /\ ~tangent_args.called
  /\ tangent_args' = [tangent_args EXCEPT !.called = TRUE]
  /\ tangents' = compute_tangent_contact_directions(tangent_args.force_dir1,
                                                    tangent_args.linvel1, tangent_args.linvel2)
  /\ UNCHANGED <<manifolds, builders, constraints, solver_vels, panicked, ops, last, acc,
                 unsolved, stored>>

TangentNext == ComputeTangents

TangentSpec == TangentInit /\ [][TangentNext]_vars

\* ------------------------------------------------------------------ claims
\* The constraint and manifold of the last call.
LastC == constraints[last.c]
Covered(c) == {k \in Points : k < constraints[c].num_contacts}

C2_RemoveBias ==
  [][last'.op = "remove_cfm_and_bias_from_rhs" =>
       LET old == constraints[last'.c]
           new == constraints'[last'.c]
       IN  /\ new.cfm_factor = One
           /\ \A k \in Points :
                /\ new.elements[k].normal_part.rhs = new.elements[k].normal_part.rhs_wo_bias
                /\ \A j \in Axes : new.elements[k].tangent_part.rhs[j]
                                     = new.elements[k].tangent_part.rhs_wo_bias[j]
                /\ new.elements[k].normal_part
                     = [old.elements[k].normal_part EXCEPT !.rhs = new.elements[k].normal_part.rhs]
                /\ new.elements[k].tangent_part
                     = [old.elements[k].tangent_part EXCEPT !.rhs = new.elements[k].tangent_part.rhs]
           /\ new = [old EXCEPT !.cfm_factor = new.cfm_factor, !.elements = new.elements]
           /\ \A c \in Slots \ {last'.c} : constraints'[c] = constraints[c]
           /\ UNCHANGED <<manifolds, builders, solver_vels>>]_vars

\* C2, witness: remove_cfm_and_bias_from_rhs has run on a constraint that
\* was generated, updated, solved and updated again: it holds an accumulated
\* impulse and a softened cfm_factor was in place.
C2_Witness ==
  /\ last.op = "remove_cfm_and_bias_from_rhs"
  /\ last.aux[1] # One /\ LastC.cfm_factor = One
  /\ \E k \in Covered(last.c) :
       /\ LastC.elements[k].normal_part.total_impulse > 0
       /\ LastC.elements[k].normal_part.rhs = LastC.elements[k].normal_part.rhs_wo_bias
       /\ LastC.elements[k].normal_part.rhs_wo_bias # 0

\* The arguments of the last call, an update, and what update_with_positions
\* derives from them for point k of its constraint.
LastParams == last.args[1]
LastCcd ==
  last.args[3][LastC.solver_vel1].ccd_thickness + last.args[3][LastC.solver_vel2].ccd_thickness
LastDist(k) ==
  LET info == builders[last.c].infos[k]
  IN  update_dist(info, LastC.dir1,
                  update_p1(info, last.args[3][LastC.solver_vel1].position, last.args[2]),
                  update_p2(info, last.args[3][LastC.solver_vel2].position))
\* The bias of point k: rhs - rhs_wo_bias of its normal part.
LastBias(k) ==
  LastC.elements[k].normal_part.rhs - LastC.elements[k].normal_part.rhs_wo_bias
LastFast(k) == Mul(-LastC.elements[k].normal_part.rhs, LastParams.dt) > Mul(LastCcd, Half)

\* C3: after an update, every contact point of the constraint whose
\* recomputed separation dist is greater than allowed_linear_error has
\* rhs = rhs_wo_bias in its normal part: its bias is exactly 0.
C3_SeparatingNoBias ==
  last.op = "update" =>
    \A k \in Covered(last.c) :
      LastDist(k) > LastParams.allowed_linear_error => LastBias(k) = 0

\* C3, witness: an update with a nonzero erp_inv_dt has found a separated
\* contact point, and its right-hand side is not zero.
C3_Witness ==
  /\ last.op = "update" /\ LastParams.erp_inv_dt > 0
  /\ \E k \in Covered(last.c) :
       /\ LastDist(k) > LastParams.allowed_linear_error
       /\ LastC.elements[k].normal_part.rhs # 0

\* C4, as stated: after an update the bias of every contact point is never
\* positive and its magnitude is at most max_penetration_correction.
C4_BiasWithinMaxCorrection ==
  last.op = "update" =>
    \A k \in Covered(last.c) :
      LastBias(k) <= 0 /\ -LastBias(k) <= LastParams.max_penetration_correction

\* C4, amended: after an update the bias of every contact point is never
\* positive and its magnitude is at most erp_inv_dt times
\* max_penetration_correction (erp_inv_dt >= 0, max_penetration_correction
\* >= 0): the clamp bounds the corrected depth, not the bias.
C4_BiasWithinScaledMaxCorrection ==
  last.op = "update" =>
    \A k \in Covered(last.c) :
      /\ LastBias(k) <= 0
      /\ -LastBias(k) <= Mul(LastParams.erp_inv_dt, LastParams.max_penetration_correction)

\* C4, witness: an update with erp_inv_dt > 1 has met a point deeper than
\* max_penetration_correction below the slop; its bias is the whole of
\* erp_inv_dt * max_penetration_correction.
C4_Witness ==
  /\ last.op = "update" /\ LastParams.erp_inv_dt > One
  /\ \E k \in Covered(last.c) :
       /\ LastDist(k) + LastParams.allowed_linear_error < -LastParams.max_penetration_correction
       /\ -LastBias(k) = Mul(LastParams.erp_inv_dt, LastParams.max_penetration_correction)
       /\ -LastBias(k) > LastParams.max_penetration_correction

\* C5, as stated: after an update, cfm_factor is 1.0 if and only if some
\* contact point of the constraint is fast (-rhs * dt > 0.5 * ccd_thickness),
\* and is params.cfm_factor() otherwise.
C5_NeutralIffFast ==
  last.op = "update" =>
    /\ (LastC.cfm_factor = One) <=> (\E k \in Covered(last.c) : LastFast(k))
    /\ (~ \E k \in Covered(last.c) : LastFast(k)) => LastC.cfm_factor = LastParams.cfm_factor

\* C5, amended: after an update, cfm_factor is 1.0 if some contact point of
\* the constraint is fast and params.cfm_factor() otherwise, whatever
\* cfm_factor was before; so it is 1.0 exactly when some point is fast or
\* params.cfm_factor() is itself 1.0.
C5_NeutralIfFastElseParams ==
  last.op = "update" =>
    LastC.cfm_factor = IF \E k \in Covered(last.c) : LastFast(k)
                         THEN One ELSE LastParams.cfm_factor

\* C5, witness: an update that found cfm_factor = 1.0 (left by an earlier
\* update or by remove_cfm_and_bias_from_rhs) and no fast point has set a
\* softening cfm_factor.
C5_Witness ==
  /\ last.op = "update" /\ last.aux[1] = One
  /\ ~ \E k \in Covered(last.c) : LastFast(k)
  /\ LastC.cfm_factor = LastParams.cfm_factor /\ LastC.cfm_factor # One

\* C6: a writeback_impulses call sets, for every k < num_contacts, impulse
\* and tangent_impulse of stored contact manifold_contact_id[k] of manifold
\* manifold_id to the impulses of element k; it changes no other stored
\* contact, no other manifold, nothing else of that manifold, and no
\* constraint.
C6_Writeback ==
  [][last'.op = "writeback_impulses" =>
       LET self == constraints[last'.c]
           ids == {self.manifold_contact_id[k] : k \in Covered(last'.c)}
       IN  /\ \A k \in Covered(last'.c) :
                manifolds'[self.manifold_id].points[self.manifold_contact_id[k]].data
                  = [impulse |-> self.elements[k].normal_part.impulse,
                     tangent_impulse |-> self.elements[k].tangent_part.impulse]
           /\ \A id \in DOMAIN manifolds[self.manifold_id].points \ ids :
                manifolds'[self.manifold_id].points[id] = manifolds[self.manifold_id].points[id]
           /\ manifolds'[self.manifold_id].data = manifolds[self.manifold_id].data
           /\ \A m \in DOMAIN manifolds \ {self.manifold_id} : manifolds'[m] = manifolds[m]
           /\ DOMAIN manifolds' = DOMAIN manifolds
           /\ constraints' = constraints]_vars

\* C6, witness: writeback_impulses has stored a solved, positive normal
\* impulse in manifold 0, in a stored contact other than the one at the
\* element's own index.
C6_Witness ==
  /\ last.op = "writeback_impulses"
  /\ \E k \in Covered(last.c) :
       /\ LastC.elements[k].normal_part.impulse > 0
       /\ LastC.manifold_contact_id[k] # k
       /\ manifolds[LastC.manifold_id].points[LastC.manifold_contact_id[k]].data.impulse
            = LastC.elements[k].normal_part.impulse

\* C7: a solve call loads the velocities of its two slots as they are in
\* the array, stores what it computed to exactly these two slots and leaves
\* every other slot alone; so the velocity it loads from a slot is the one
\* the last solve that used the slot, of whatever constraint, computed.
C7_GaussSeidel ==
  [][last'.op = "solve" =>
       LET self == constraints[last'.c]
           slot == <<self.solver_vel1, self.solver_vel2>>
           loaded == last'.aux[1]
           computed == last'.aux[2]
       IN  /\ \A s \in 1..2 :
                /\ loaded[s] = solver_vels[slot[s]]
                /\ solver_vels'[slot[s]] = computed[s]
                /\ stored[slot[s]].by # NoConstraint => loaded[s] = stored[slot[s]].vel
           /\ \A i \in DOMAIN solver_vels \ {slot[1], slot[2]} : solver_vels'[i] = solver_vels[i]
           /\ DOMAIN solver_vels' = DOMAIN solver_vels]_vars

\* C7, witness: a solve has changed a velocity that the solve of another
\* constraint on the same slot had stored before.
C7_Witness ==
  /\ last.op = "solve"
  /\ last.aux[3][1] \notin {NoConstraint, last.c}
  /\ last.aux[1][1] # SolverVelsInit[LastC.solver_vel1]
  /\ last.aux[2][1] # last.aux[1][1]
  /\ solver_vels[LastC.solver_vel1] = last.aux[2][1]

RECURSIVE SumContacts(_, _, _)
SumContacts(cs, off, chunks) ==
  IF chunks = 0 THEN 0
  ELSE cs[off + chunks - 1].num_contacts + SumContacts(cs, off, chunks - 1)

\* C8: a generate call that does not panic, on a manifold of n solver
\* contacts, writes the constraints 0..ceil(n / MAX_MANIFOLD_POINTS)-1 of
\* its slice and no other: each gets the manifold id and between 1 and
\* MAX_MANIFOLD_POINTS contacts, n in all, and slot k of constraint l gets
\* the contact_id of solver contact l * MAX_MANIFOLD_POINTS + k.  Every
\* generated constraint has num_contacts <= MAX_MANIFOLD_POINTS.
C8_Batches ==
  [][(last'.op = "generate" /\ ~panicked') =>
       LET mid == last'.mid
           off == last'.c
           contacts == manifolds[mid].data.solver_contacts
           n == Len(contacts)
           chunks == (n + MAX_MANIFOLD_POINTS - 1) \div MAX_MANIFOLD_POINTS
       IN  /\ \A l \in 0..(chunks - 1) :
                LET c == constraints'[off + l]
                IN  /\ c.manifold_id = mid
                    /\ 1 <= c.num_contacts /\ c.num_contacts <= MAX_MANIFOLD_POINTS
                    /\ \A k \in 0..(c.num_contacts - 1) :
                         c.manifold_contact_id[k]
                           = contacts[l * MAX_MANIFOLD_POINTS + k + 1].contact_id
           /\ SumContacts(constraints', off, chunks) = n
           /\ \A c \in Slots \ (off..(off + chunks - 1)) :
                constraints'[c] = constraints[c] /\ builders'[c] = builders[c]
           /\ \A c \in Slots :
                constraints'[c].num_contacts # u8_MAX
                  => constraints'[c].num_contacts <= MAX_MANIFOLD_POINTS]_vars

\* C8, witness: generate has split a manifold of more than
\* MAX_MANIFOLD_POINTS solver contacts over two constraints.
C8_Witness ==
  /\ last.op = "generate" /\ ~panicked
  /\ Len(manifolds[last.mid].data.solver_contacts) > MAX_MANIFOLD_POINTS
  /\ constraints[last.c].num_contacts = MAX_MANIFOLD_POINTS
  /\ constraints[last.c + 1].manifold_id = last.mid
  /\ constraints[last.c + 1].num_contacts
       = Len(manifolds[last.mid].data.solver_contacts) - MAX_MANIFOLD_POINTS

\* C9: a generate call on a manifold whose relative_dominance is not 0
\* panics and leaves the builders and the constraints as they were.
C9_DominancePanics ==
  [][(last'.op = "generate" /\ manifolds[last'.mid].data.relative_dominance # 0) =>
       panicked' /\ builders' = builders /\ constraints' = constraints]_vars

\* C9, witness: generate has panicked on manifold 2 when a constraint had
\* been generated before, and that constraint is still there.
C9_Witness ==
  /\ panicked /\ last.op = "generate"
  /\ manifolds[last.mid].data.relative_dominance # 0
  /\ \E c \in Slots : Generated(c) /\ constraints[c].manifold_id # last.mid

\* C10: in every generated constraint, total_impulse of the normal part and
\* of the tangent part of every contact point is the sum of the impulses the
\* part held at each update since the generate that wrote the constraint.
C10_TotalImpulseIsSum ==
  \A c \in Slots :
    Generated(c) =>
      \A k \in Covered(c) :
        /\ constraints[c].elements[k].normal_part.total_impulse = acc[c][k].normal
        /\ \A j \in Axes :
             constraints[c].elements[k].tangent_part.total_impulse[j] = acc[c][k].tangent[j]

\* The projection of the relative linear velocity of the last
\* compute_tangent_contact_directions call onto the plane orthogonal to its
\* force direction.
LastProjection ==
  tangents_projection(tangent_args.force_dir1, tangent_args.linvel1, tangent_args.linvel2)

\* C11, as stated: compute_tangent_contact_directions returns as primary
\* tangent the normalized projection exactly when the projection's length
\* exceeds THRESHOLD and the fallback vector in every other case, a length
\* equal to THRESHOLD included; the second vector is the force direction
\* crossed with the primary tangent.
C11_ProjectionIffAboveThreshold ==
  tangent_args.called =>
    /\ tangents[0] = IF gdot3(LastProjection, LastProjection) > THRESHOLD * THRESHOLD
                       THEN UnitVector(Shortest(LastProjection))
                       ELSE orthonormal_vector(tangent_args.force_dir1)
    /\ tangents[1] = UnitVector(gcross3(tangent_args.force_dir1, tangents[0].dir))

\* C11, amended: compute_tangent_contact_directions returns as primary
\* tangent the normalized projection exactly when the projection's length
\* is at least THRESHOLD (equal to it or above), and the fallback vector
\* when it is below; the second vector is the force direction crossed with
\* the primary tangent, and no returned component is NaN.
C11_ProjectionIffNotBelowThreshold ==
  tangent_args.called =>
    /\ tangents[0] = IF gdot3(LastProjection, LastProjection) >= THRESHOLD * THRESHOLD
                       THEN UnitVector(Shortest(LastProjection))
                       ELSE orthonormal_vector(tangent_args.force_dir1)
    /\ tangents[1] = UnitVector(gcross3(tangent_args.force_dir1, tangents[0].dir))

\* C11, witness: a projection whose length is exactly THRESHOLD, along no
\* axis and so not along the fallback vector, has been returned normalized,
\* the second body moving.
C11_Witness ==
  /\ tangent_args.called
  /\ gdot3(LastProjection, LastProjection) = THRESHOLD * THRESHOLD
  /\ tangents[0] = UnitVector(Shortest(LastProjection))
  /\ tangents[0] # orthonormal_vector(tangent_args.force_dir1)
  /\ Cardinality({i \in 1..3 : tangents[0].dir[i] # 0}) = 2
  /\ tangent_args.linvel2 # Zeros3

====
